---- MODULE Spec2Model ----
(***************************************************************************)
(* State-machine model of the WAN resilience / QoS simulations:            *)
(*   - static routing tables with primary/backup entries (exercise 1, 4),  *)
(*   - the link failure / restore handlers,                                *)
(*   - the policy steering controller PbrController (exercise 5),          *)
(*   - the admission controller RateLimiter (exercise 3),                  *)
(*   - the priority queue disc and the traffic generators (QoS scenario),  *)
(*   - the scheduled failure and restoration of the multi-hop scenario,    *)
(*   - the flow-statistics loops and the VoIP verdict of the analyses.     *)
(* Virtual time is the simulator clock; every handler is one atomic step,  *)
(* as the simulator runs callbacks one at a time on a single thread.       *)
(***************************************************************************)
EXTENDS Integers, Sequences, FiniteSets, TLC

VARIABLES
    routes,        \* the routing table of the router under study: a sequence of entries
    m_state,       \* PbrController::m_state
    toggles,       \* number of executions of PbrController::Toggle so far
    now,           \* Simulator::Now() of the scenario being run (scenario time unit)
    prevRoutes,    \* the table as it was before the last table operation
    lastOp,        \* the last table operation: <<name, dest, mask>>
    mtu,           \* per link: MTU of the two NetDevices of the link
    ifaceUp,       \* per link: Ipv4 interface state at the two ends
    devUp,         \* the state of g_primaryLinkDevice (multi-hop scenario)
    g_linkFailed,  \* the flag of exercise4_multi_hop_wan.cc
    failPending,   \* the scheduled FailLink event of the triangle scenario has not run yet
    packetsSent,   \* packets sent by the scenario's client so far
    lastHop,       \* index of the table entry the last forwarded packet used (0: none)
    m_rateLimit,      \* RateLimiter::m_rateLimit, bits per second
    m_bytesInWindow,  \* RateLimiter::m_bytesInWindow
    m_windowStart,    \* RateLimiter::m_windowStart
    m_droppedPackets, \* RateLimiter::m_droppedPackets
    calls,            \* number of AllowPacket calls so far
    lastCall,         \* the last AllowPacket call: its size, the limit in force, its result
    win,              \* the calls of the current window: how many allowed, how many denied
    solo,             \* the limiter of the run in which only the first source sends
    enableRateLimiting, \* the flag of the security scenario's main
    atRouter,         \* packets that reached the router and are not forwarded yet
    forwarded,        \* packets the router forwarded to the server
    bands,            \* the FIFOs of the priority queue disc, band 0 first
    lastQ,            \* the last queue operation and its outcome
    nextPkt,          \* identity of the next packet offered to the queue disc
    variant,          \* the generator: "cbr" (VoipApplication) or "flood" (DDoSAttacker)
    m_running,        \* m_running of the generator
    m_packetsSent,    \* m_packetsSent of the generator
    m_nPackets,       \* VoipApplication::m_nPackets
    m_sendEvent,      \* m_sendEvent of the generator: the uid of the event, 0 before the first
    events,           \* the simulator's pending events: [at, uid, kind]
    nextUid,          \* uid of the next event scheduled
    sendLog,          \* the times at which the generator's socket sent a packet
    startedAt,        \* time at which StartApplication ran, -1 before
    stopRan,          \* StopApplication has run
    legitimateTx,     \* the totals of the security analysis
    legitimateRx,
    attackTx,
    attackRx,
    aggPc,            \* position of the security analysis: "loop" or "done"
    lossOut,          \* the printed "Packet Loss" count (uint64_t)
    blockedOut,       \* the printed "Blocked" count (uint64_t)
    failureTime,      \* failureTime of exercise4_multi_hop_wan.cc main, seconds
    simTime,          \* simTime of the same main, seconds
    restoreLink,      \* restoreLink of the same main
    restorePending,   \* the scheduled RestoreLink event has not run yet
    linkLog,          \* the link handlers that ran, with their times: <<name, time>>
    lastKind,         \* the application that sent the last packet offered to the queue disc
    aggregator,       \* the program whose flow-statistics loop runs
    flow,             \* the FlowStats of the flow the loop handled last
    flowOut,          \* what the loop computed for that flow
    voipAvgDelay,     \* the category sums of the QoS analysis
    voipLoss,
    voipFlows,
    pooled,           \* delaySum and rxPackets summed over the category's flows
    summary,          \* the category summary: average delay, average loss, verdict
    fsPc              \* position of the flow-statistics loop: "loop" or "done"

routeVars == <<routes, m_state, toggles, prevRoutes, lastOp>>
linkVars  == <<mtu, ifaceUp, devUp, g_linkFailed>>
scenVars  == <<now, failPending, packetsSent, lastHop>>
limVars   == <<m_rateLimit, m_bytesInWindow, m_windowStart, m_droppedPackets,
               calls, lastCall, win>>
gateVars  == <<enableRateLimiting, atRouter, forwarded>>
queueVars == <<bands, lastQ, nextPkt>>
genVars   == <<variant, m_running, m_packetsSent, m_nPackets, m_sendEvent, events,
               nextUid, sendLog, startedAt, stopRan>>
aggVars   == <<legitimateTx, legitimateRx, attackTx, attackRx, aggPc, lossOut, blockedOut>>
hopVars   == <<failureTime, simTime, restoreLink, restorePending, linkLog>>
flowVars  == <<aggregator, flow, flowOut, voipAvgDelay, voipLoss, voipFlows, pooled,
               summary, fsPc>>
moreVars  == <<hopVars, lastKind, flowVars>>
vars == <<routes, m_state, toggles, prevRoutes, lastOp, mtu, ifaceUp, devUp,
          g_linkFailed, now, failPending, packetsSent, lastHop,
          m_rateLimit, m_bytesInWindow, m_windowStart, m_droppedPackets,
          calls, lastCall, win, solo, enableRateLimiting, atRouter, forwarded,
          bands, lastQ, nextPkt, variant, m_running, m_packetsSent, m_nPackets,
          m_sendEvent, events, nextUid, sendLog, startedAt, stopRan,
          legitimateTx, legitimateRx, attackTx, attackRx, aggPc, lossOut, blockedOut,
          failureTime, simTime, restoreLink, restorePending, linkLog, lastKind,
          aggregator, flow, flowOut, voipAvgDelay, voipLoss, voipFlows, pooled,
          summary, fsPc>>

----------------------------------------------------------------------------
(* Bounds of the model *)
MaxRoutes   == 3
TicksPerSec == 10      \* resolution of the virtual clock: ticks in one second
MaxBurst    == 5       \* the largest maxBytes of the rate limits tried
MaxSize     == 2       \* the largest packet size tried, bytes
MaxCalls    == 7       \* AllowPacket calls in one run
WindowTicks == 2       \* clock ticks in one rate limiter window
MaxWindows  == 2       \* windows' worth of virtual time in one rate limiter run

(* Addresses, masks, interfaces used by the programs *)
WatchedDest  == "10.200.0.0"
OtherDest    == "10.1.2.0"
Mask24       == "255.255.255.0"
Mask16       == "255.255.0.0"
HopPrimary   == "10.100.1.2"
HopSecondary == "10.100.2.2"

Dests == {WatchedDest, OtherDest}
Masks == {Mask24, Mask16}
Hops  == {HopPrimary, HopSecondary}
Links == {1, 2}

\* the interface a next hop is reached through (exercise5.cc: outIf=1 / outIf=2)
IfOf(gw) == IF gw = HopPrimary THEN 1 ELSE 2

Entry(d, m, gw, ifc, metric) ==
    [dest |-> d, mask |-> m, gw |-> gw, ifc |-> ifc, metric |-> metric]

----------------------------------------------------------------------------
(* Table primitives *)

\* staticRouting->AddNetworkRouteTo(dest, mask, nextHop, interface[, metric])
AddNetworkRouteTo(t, d, m, gw, ifc, metric) == Append(t, Entry(d, m, gw, ifc, metric))

\* staticRouting->RemoveRoute(i), i a 0-based index
RemoveAt(t, i) == [k \in 1..(Len(t) - 1) |-> IF k <= i THEN t[k] ELSE t[k + 1]]

\* the test of the removal loop
\* variant: the mask is not compared
MatchesMutDestOnly(e, d, m) == e.dest = d
Matches(e, d, m) == e.dest = d /\ e.mask = m

\* for (int i = (int)n - 1; i >= 0; --i) if (match) RemoveRoute(i);
RECURSIVE RemoveLoop(_, _, _, _)
RemoveLoop(t, i, d, m) ==
    IF i < 0 THEN t
    ELSE IF Matches(t[i + 1], d, m)
         THEN RemoveLoop(RemoveAt(t, i), i - 1, d, m)
         ELSE RemoveLoop(t, i - 1, d, m)

RemoveRoutes(t, d, m) == RemoveLoop(t, Len(t) - 1, d, m)

\* the entry Toggle adds, by m_state
ToggleHop(st) == IF st THEN HopPrimary ELSE HopSecondary

\* the table after the removal loop and the one AddNetworkRouteTo of Toggle
\* variant: only the last matching entry is removed
ToggledMutRemoveOne(t, st) ==
    LET hit == {i \in 1..Len(t) : Matches(t[i], WatchedDest, Mask24)}
        cut == IF hit = {} THEN t
               ELSE RemoveAt(t, (CHOOSE i \in hit : \A j \in hit : j <= i) - 1)
    IN  AddNetworkRouteTo(cut, WatchedDest, Mask24, ToggleHop(st), IfOf(ToggleHop(st)), 0)
Toggled(t, st) ==
    AddNetworkRouteTo(RemoveRoutes(t, WatchedDest, Mask24),
                      WatchedDest, Mask24, ToggleHop(st), IfOf(ToggleHop(st)), 0)

----------------------------------------------------------------------------
(* Links and the failure / restore handlers *)

BackupLink  == 1
PrimaryLink == 2

\* Link.state = Up: both devices can carry a packet, both IP interfaces are up
LinkUp(l) ==
    /\ mtu[l][1] > 0 /\ mtu[l][2] > 0
    /\ ifaceUp[l][1] /\ ifaceUp[l][2]
    /\ devUp[l]

up == [l \in Links |-> LinkUp(l)]

\* Lookup(dest): scan the entries in insertion order, skip those whose link is
\* Down, keep the first entry of the lowest metric; 0 is "unreachable".
RECURSIVE LookupScan(_, _, _, _, _)
LookupScan(t, u, d, i, best) ==
    IF i > Len(t) THEN best
    ELSE IF t[i].dest = d /\ u[t[i].ifc]
            /\ (best = 0 \/ t[i].metric < t[best].metric)
         THEN LookupScan(t, u, d, i + 1, i)
         ELSE LookupScan(t, u, d, i + 1, best)

\* variants: no skip of Down links; first Up entry whatever its metric; last of
\* the equal-metric entries
LookupMutNoFilter(t, u, d) == LookupScan(t, [l \in Links |-> TRUE], d, 1, 0)
LookupMutFirstUp(t, u, d) ==
    LET hit == {i \in 1..Len(t) : t[i].dest = d /\ u[t[i].ifc]}
    IN  IF hit = {} THEN 0 ELSE CHOOSE i \in hit : \A j \in hit : i <= j
LookupMutLastWins(t, u, d) ==
    LET hit == {i \in 1..Len(t) : t[i].dest = d /\ u[t[i].ifc]}
        low == {i \in hit : \A j \in hit : t[i].metric <= t[j].metric}
    IN  IF low = {} THEN 0 ELSE CHOOSE i \in low : \A j \in low : j <= i
Lookup(t, u, d) == LookupScan(t, u, d, 1, 0)

\* void FailLink(a, b): a->SetMtu(0); b->SetMtu(0);
\* variants: the devices of the other link; the routes through the link are dropped
FailLinkMutWrongLink(l) ==
    /\ mtu' = [mtu EXCEPT ![IF l = PrimaryLink THEN BackupLink ELSE PrimaryLink] = <<0, 0>>]
    /\ UNCHANGED <<routes, ifaceUp, devUp, g_linkFailed>>
FailLinkMutDropsRoutes(l) ==
    /\ mtu' = [mtu EXCEPT ![l] = <<0, 0>>]
    /\ routes' = SelectSeq(routes, LAMBDA e : e.ifc # l)
    /\ UNCHANGED <<ifaceUp, devUp, g_linkFailed>>
FailLink(l) ==
    /\ mtu' = [mtu EXCEPT ![l] = <<0, 0>>]
    /\ UNCHANGED <<routes, ifaceUp, devUp, g_linkFailed>>

\* void DisableDevice(a, b): a->SetMtu(0); b->SetMtu(0);
DisableDevice(l) ==
    /\ mtu' = [mtu EXCEPT ![l] = <<0, 0>>]
    /\ UNCHANGED <<routes, ifaceUp, devUp, g_linkFailed>>

\* BringInterfaceDown(device): ipv4->SetDown(ifIndex) at the device's end of l
BringInterfaceDown(st, l, end) == [st EXCEPT ![l][end] = FALSE]

\* DisableLinkPair(devA, devB): BringInterfaceDown(devA); BringInterfaceDown(devB);
DisableLinkPair(l) ==
    /\ ifaceUp' = BringInterfaceDown(BringInterfaceDown(ifaceUp, l, 1), l, 2)
    /\ UNCHANGED <<routes, mtu, devUp, g_linkFailed>>

SimulateLinkFailureMutNoFlag ==
    /\ devUp' = [devUp EXCEPT ![PrimaryLink] = FALSE]
    /\ UNCHANGED <<routes, mtu, ifaceUp, g_linkFailed>>

\* SimulateLinkFailure(): g_primaryLinkDevice->SetDown(); g_linkFailed = true;
SimulateLinkFailure ==
    /\ devUp' = [devUp EXCEPT ![PrimaryLink] = FALSE]
    /\ g_linkFailed' = TRUE
    /\ UNCHANGED <<routes, mtu, ifaceUp>>

\* RestoreLink(): g_primaryLinkDevice->SetUp(); g_linkFailed = false;
RestoreLink ==
    /\ devUp' = [devUp EXCEPT ![PrimaryLink] = TRUE]
    /\ g_linkFailed' = FALSE
    /\ UNCHANGED <<routes, mtu, ifaceUp>>

LinksInit ==
    /\ mtu = [l \in Links |-> <<1500, 1500>>]
    /\ ifaceUp = [l \in Links |-> <<TRUE, TRUE>>]
    /\ devUp = [l \in Links |-> TRUE]
    /\ g_linkFailed = FALSE

----------------------------------------------------------------------------
(* The policy steering controller *)

\* PbrController::Toggle(): the removal loop, one AddNetworkRouteTo, m_state = !m_state
Toggle ==
    /\ routes' = Toggled(routes, m_state)
    /\ m_state' = ~m_state
    /\ prevRoutes' = routes
    /\ lastOp' = <<"Toggle", WatchedDest, Mask24>>

----------------------------------------------------------------------------
(* The admission controller *)

WindowSeconds == 1

Sources == {"10.1.1.1", "10.1.10.1"}
Sizes   == 0..MaxSize
\* rate limits in bits per second: zero, less than one byte per second, and two
\* limits of whole bytes
Rates   == {0, 7, 8 * 2, 8 * MaxBurst + 4}

NoCall  == [called |-> FALSE]
NoWin   == [allowed |-> 0, denied |-> 0]

\* uint64_t maxBytes = m_rateLimit.GetBitRate() / 8 * m_windowSize.GetSeconds();
MaxBytesOf(rate) == (rate \div 8) * WindowSeconds

\* if (now - m_windowStart >= m_windowSize)
\* variant: the boundary is exclusive
WindowExpiredMutStrict(t, start) == t - start > WindowTicks
WindowExpired(t, start) == t - start >= WindowTicks

\* if (m_bytesInWindow + packet->GetSize() <= maxBytes)
\* variant: strict comparison
FitsMutStrict(bytes, size, maxBytes) == bytes + size < maxBytes
Fits(bytes, size, maxBytes) == bytes + size <= maxBytes

\* RateLimiter::RateLimiter(): no bytes, window starting at 0, nothing dropped.
\* The limit is the constructor's, or the one main sets with SetLimit.
LimiterInit ==
    /\ m_rateLimit \in Rates
    /\ m_bytesInWindow = 0
    /\ m_windowStart = 0
    /\ m_droppedPackets = 0
    /\ calls = 0 /\ lastCall = NoCall /\ win = NoWin

\* the limiter of a scenario that does not use it
LimiterIdle ==
    /\ m_rateLimit = 0
    /\ m_bytesInWindow = 0
    /\ m_windowStart = 0
    /\ m_droppedPackets = 0
    /\ calls = 0 /\ lastCall = NoCall /\ win = NoWin

\* void RateLimiter::SetLimit(DataRate rate)
SetLimit(rate) ==
    /\ m_rateLimit' = rate
    /\ UNCHANGED <<m_bytesInWindow, m_windowStart, m_droppedPackets, calls, lastCall, win>>

\* bool RateLimiter::AllowPacket(packet, from), called at Simulator::Now() = now
\* variant: m_droppedPackets++ is outside the else branch
AllowPacketMutCountsCalls(size, from) ==
    LET reset    == WindowExpired(now, m_windowStart)
        bytes    == IF reset THEN 0 ELSE m_bytesInWindow
        ok       == Fits(bytes, size, MaxBytesOf(m_rateLimit))
        w        == IF reset THEN NoWin ELSE win
    IN  /\ calls < MaxCalls
        /\ m_windowStart' = IF reset THEN now ELSE m_windowStart
        /\ m_bytesInWindow' = IF ok THEN bytes + size ELSE bytes
        /\ m_droppedPackets' = m_droppedPackets + 1
        /\ calls' = calls + 1
        /\ lastCall' = [called |-> TRUE, size |-> size, limit |-> m_rateLimit,
                        allowed |-> ok]
        /\ win' = [allowed |-> IF ok THEN w.allowed + 1 ELSE w.allowed,
                   denied  |-> IF ok THEN w.denied ELSE w.denied + 1]
        /\ UNCHANGED m_rateLimit
AllowPacket(size, from) ==
    LET reset    == WindowExpired(now, m_windowStart)
        bytes    == IF reset THEN 0 ELSE m_bytesInWindow
        start    == IF reset THEN now ELSE m_windowStart
        maxBytes == MaxBytesOf(m_rateLimit)
        ok       == Fits(bytes, size, maxBytes)
        w        == IF reset THEN NoWin ELSE win
    IN  /\ calls < MaxCalls
        /\ m_windowStart' = start
        /\ m_bytesInWindow' = IF ok THEN bytes + size ELSE bytes
        \* m_droppedPackets is a uint32_t; it stays far below 2^32 within MaxCalls
        /\ m_droppedPackets' = IF ok THEN m_droppedPackets ELSE m_droppedPackets + 1
        /\ calls' = calls + 1
        /\ lastCall' = [called |-> TRUE, size |-> size, limit |-> m_rateLimit,
                        allowed |-> ok]
        /\ win' = [allowed |-> IF ok THEN w.allowed + 1 ELSE w.allowed,
                   denied  |-> IF ok THEN w.denied ELSE w.denied + 1]
        /\ UNCHANGED m_rateLimit

\* AllowPacket as a function of the limiter's fields: the fields after the call
\* at time t and the value returned
Admit(bytes, start, t, size, rate) ==
    LET reset == WindowExpired(t, start)
        b     == IF reset THEN 0 ELSE bytes
        ok    == Fits(b, size, MaxBytesOf(rate))
    IN  [bytes |-> IF ok THEN b + size ELSE b,
         start |-> IF reset THEN t ELSE start,
         ok    |-> ok]

\* the source whose packets are followed, and the other one
SourceA == "10.1.1.1"
SourceB == "10.1.10.1"

\* a second RateLimiter, constructed alike, whose AllowPacket is called for the
\* packets of SourceA only, at the same times
NoSolo == [bytes |-> 0, start |-> 0, ok |-> TRUE, from |-> "none"]

----------------------------------------------------------------------------
(* The priority queue discipline on the router's WAN interface *)

QCap    == 2       \* capacity of one band's FIFO, packets
MaxPkts == 6       \* packets offered to the queue disc in one run

\* "Priomap", StringValue("0 1 1 1 1 1 1 1 1 1 1 1 1 1 1 1")
Priomap  == <<0, 1, 1, 1, 1, 1, 1, 1, 1, 1, 1, 1, 1, 1, 1, 1>>
\* tchPrio.AddQueueDiscs(handle, 2, "ns3::FifoQueueDisc")
NumBands == 2
Priorities == 0..(Len(Priomap) - 1)
Classes    == 0..(NumBands - 1)

\* the band of a packet, by the priority it carries
Classify(prio) == Priomap[prio + 1]

NoQ == [op |-> "none"]

\* Enqueue: append to the band's FIFO, tail drop when the FIFO is at capacity
\* variant: the head is pushed out to make room
EnqueueToMutPushOut(b, c, p) ==
    IF Len(b[c + 1]) < QCap THEN [b EXCEPT ![c + 1] = Append(@, p)]
    ELSE [b EXCEPT ![c + 1] = Append(Tail(@), p)]
EnqueueTo(b, c, p) ==
    IF Len(b[c + 1]) < QCap THEN [b EXCEPT ![c + 1] = Append(@, p)] ELSE b

\* Dequeue: the lowest-indexed non-empty band, -1 when all are empty
\* variant: the fullest band is served
NextBandMutLongest(b) ==
    IF \A c \in Classes : b[c + 1] = <<>> THEN -1
    ELSE CHOOSE c \in Classes :
            /\ \A d \in Classes : Len(b[d + 1]) <= Len(b[c + 1])
            /\ \A d \in Classes : Len(b[d + 1]) = Len(b[c + 1]) => c <= d
NextBand(b) ==
    IF \A c \in Classes : b[c + 1] = <<>> THEN -1
    ELSE CHOOSE c \in Classes : b[c + 1] # <<>> /\ \A d \in Classes : d < c => b[d + 1] = <<>>

QueueIdle ==
    /\ bands = [c \in 1..NumBands |-> <<>>]
    /\ lastQ = NoQ
    /\ nextPkt = 1

\* a packet of priority prio reaches the queue disc
Enqueue(prio) ==
    LET c == Classify(prio)
    IN  /\ nextPkt <= MaxPkts
        /\ bands' = EnqueueTo(bands, c, nextPkt)
        /\ lastQ' = [op |-> "Enqueue", cls |-> c, pkt |-> nextPkt, high |-> Len(bands[1]),
                     full |-> Len(bands[c + 1]) >= QCap]
        /\ nextPkt' = nextPkt + 1

\* the device asks for the next packet to transmit
Dequeue ==
    LET c == NextBand(bands)
    IN  /\ bands' = IF c = -1 THEN bands ELSE [bands EXCEPT ![c + 1] = Tail(@)]
        /\ lastQ' = [op |-> "Dequeue", cls |-> c,
                     pkt |-> IF c = -1 THEN 0 ELSE Head(bands[c + 1]),
                     high |-> Len(bands[1]), full |-> FALSE]
        /\ UNCHANGED nextPkt

----------------------------------------------------------------------------
(* The traffic generators: VoipApplication ("cbr") and DDoSAttacker ("flood").
   Time is in nanoseconds, the simulator's resolution, counted from the start
   time main gives the first generator. *)

MaxSends == 5      \* sends of one generator in one run
MaxN     == 3      \* the largest packet-count limit tried

NsPerSec == 1000000000
Variants == {"cbr", "flood"}

\* m_packetSize: Setup(..., 160, ...) / the constructor's 1024
PacketSizeOf(v) == IF v = "cbr" THEN 160 ELSE 1024
\* m_dataRate: DataRate("64kbps") / m_attackRate: DataRate("2Mbps"), bits per second
RateOf(v) == IF v = "cbr" THEN 64000 ELSE 2000000

\* attacker->SetStartTime(Seconds(10.0 + i * 0.5)): the starts are 0.5 s apart
StartDelays == {0, NsPerSec \div 2}

RoundDiv(a, b) == (2 * a + b) \div (2 * b)

\* Time tNext(Seconds(m_packetSize * 8 / static_cast<double>(rate.GetBitRate()))):
\* the quotient in seconds as a double, taken to the nearest nanosecond.  The
\* rates are multiples of 8000 bit/s, so size * 8 / rate s = size * 10^6 / (rate / 8000) ns;
\* the double is within 2^-53 of the quotient, which the rounding absorbs.
\* variant: the division is done on integers
IntervalMutIntDiv(size, rate) == ((size * 8) \div rate) * NsPerSec
Interval(size, rate) == RoundDiv(size * 1000000, rate \div 8000)

\* the event the simulator runs next: the earliest timestamp, and of the events
\* of one timestamp the one scheduled first
HeadEvent ==
    CHOOSE e \in events : \A f \in events : e.at < f.at \/ (e.at = f.at /\ e.uid <= f.uid)

\* m_sendEvent.IsRunning(): the event is scheduled and has neither run nor been cancelled
IsRunning(id) == \E e \in events : e.uid = id

\* Simulator::Cancel(id)
\* variant: the event stays scheduled
CancelMutKeeps(evs, id) == evs
Cancel(evs, id) == {e \in evs : e.uid # id}

\* if (m_packetsSent < m_nPackets) ScheduleTx(); / ScheduleNextPacket();
\* variant: the comparison is inclusive
MoreToSendMutInclusive(sent) == IF variant = "cbr" THEN sent <= m_nPackets ELSE TRUE
MoreToSend(sent) == IF variant = "cbr" THEN sent < m_nPackets ELSE TRUE

\* ScheduleTx() / ScheduleNextPacket() at time t: if (m_running) m_sendEvent =
\* Simulator::Schedule(tNext, &SendPacket, this)
ScheduleTx(run, evs, t) ==
    IF run
    THEN [events |-> evs \cup {[at |-> t + Interval(PacketSizeOf(variant), RateOf(variant)),
                                uid |-> nextUid, kind |-> "Send"]},
          id |-> nextUid, next |-> nextUid + 1]
    ELSE [events |-> evs, id |-> m_sendEvent, next |-> nextUid]

\* SendPacket() / SendAttackPacket() at time t, m_running being run and
\* m_packetsSent being sent before the call
SendPacket(run, sent, evs, t) ==
    LET sch == IF MoreToSend(sent + 1) THEN ScheduleTx(run, evs, t)
               ELSE [events |-> evs, id |-> m_sendEvent, next |-> nextUid]
    IN  /\ sendLog' = Append(sendLog, t)
        /\ m_packetsSent' = sent + 1
        /\ events' = sch.events
        /\ m_sendEvent' = sch.id
        /\ nextUid' = sch.next

\* StartApplication(), run as event e: m_running = true; m_packetsSent = 0; SendPacket();
\* variant: the first send is scheduled one interval later
StartApplicationMutDeferred(e) ==
    LET sch == ScheduleTx(TRUE, events \ {e}, e.at)
    IN  /\ m_running' = TRUE
        /\ startedAt' = e.at
        /\ m_packetsSent' = 0
        /\ events' = sch.events /\ m_sendEvent' = sch.id /\ nextUid' = sch.next
        /\ UNCHANGED <<sendLog, stopRan>>
StartApplication(e) ==
    /\ m_running' = TRUE
    /\ startedAt' = e.at
    /\ SendPacket(TRUE, 0, events \ {e}, e.at)
    /\ UNCHANGED stopRan

\* StopApplication(), run as event e: m_running = false;
\* if (m_sendEvent.IsRunning()) Simulator::Cancel(m_sendEvent);
\* variant: the pending send is not cancelled
StopApplicationMutNoCancel(e) ==
    /\ m_running' = FALSE
    /\ events' = events \ {e}
    /\ stopRan' = TRUE
    /\ UNCHANGED <<m_packetsSent, m_sendEvent, nextUid, sendLog, startedAt>>
StopApplication(e) ==
    /\ m_running' = FALSE
    /\ events' = IF IsRunning(m_sendEvent) THEN Cancel(events \ {e}, m_sendEvent)
                 ELSE events \ {e}
    /\ stopRan' = TRUE
    /\ UNCHANGED <<m_packetsSent, m_sendEvent, nextUid, sendLog, startedAt>>

\* the constructors: not running, nothing sent, no event
GenIdle ==
    /\ variant = "cbr" /\ m_running = FALSE /\ m_packetsSent = 0 /\ m_nPackets = 0
    /\ m_sendEvent = 0 /\ events = {} /\ nextUid = 1
    /\ sendLog = <<>> /\ startedAt = -1 /\ stopRan = FALSE

----------------------------------------------------------------------------
(* The security analysis after the run: totals per category and their loss *)

MaxCount == 2      \* the largest txPackets / rxPackets of one flow
MaxTotal == 3      \* the largest total of one category

\* a uint64_t is four 16-bit limbs, the least significant first
LimbBase == 65536
Zero64   == <<0, 0, 0, 0>>
ToU64(n) == <<n % LimbBase, (n \div LimbBase) % LimbBase, 0, 0>>

SubLimb(x, y, borrow) ==
    LET d == x - y - borrow
    IN  IF d < 0 THEN [limb |-> d + LimbBase, borrow |-> 1] ELSE [limb |-> d, borrow |-> 0]

\* a - b on uint64_t: the difference modulo 2^64
Sub64(a, b) ==
    LET r1 == SubLimb(a[1], b[1], 0)
        r2 == SubLimb(a[2], b[2], r1.borrow)
        r3 == SubLimb(a[3], b[3], r2.borrow)
        r4 == SubLimb(a[4], b[4], r3.borrow)
    IN  <<r1.limb, r2.limb, r3.limb, r4.limb>>

\* Ipv4Address::Get(): the address as a number
AddrNum(a) == ((a[1] * 256 + a[2]) * 256 + a[3]) * 256 + a[4]

ClientAddr   == <<10, 1, 1, 1>>       \* ifClientRouter.GetAddress(0)
ServerAddr   == <<10, 1, 2, 2>>       \* the echo server, source of the replies
AttackerBase == <<10, 1, 10, 0>>      \* Ipv4Address("10.1.10.0")
FlowSources  == {ClientAddr, ServerAddr, <<10, 1, 10, 1>>, <<10, 1, 11, 1>>}

\* bool isAttack = (t.sourceAddress.Get() >= Ipv4Address("10.1.10.0").Get());
IsAttack(src) == AddrNum(src) >= AddrNum(AttackerBase)
\* bool isLegitimate = (t.sourceAddress == ifClientRouter.GetAddress(0));
IsLegitimate(src) == src = ClientAddr

\* the printed count: (legitimateTx - legitimateRx), (attackTx - attackRx)
Lost(tx, rx) == Sub64(ToU64(tx), ToU64(rx))

AggIdle ==
    /\ legitimateTx = 0 /\ legitimateRx = 0 /\ attackTx = 0 /\ attackRx = 0
    /\ aggPc = "loop" /\ lossOut = Zero64 /\ blockedOut = Zero64

\* one iteration of for (auto& flow : stats)
AggFlow(src, tx, rx) ==
    /\ aggPc = "loop"
    /\ IF IsLegitimate(src)
       THEN /\ legitimateTx + tx <= MaxTotal /\ legitimateRx + rx <= MaxTotal
            /\ legitimateTx' = legitimateTx + tx
            /\ legitimateRx' = legitimateRx + rx
            /\ UNCHANGED <<attackTx, attackRx>>
       ELSE IF IsAttack(src)
       THEN /\ attackTx + tx <= MaxTotal /\ attackRx + rx <= MaxTotal
            /\ attackTx' = attackTx + tx
            /\ attackRx' = attackRx + rx
            /\ UNCHANGED <<legitimateTx, legitimateRx>>
       ELSE UNCHANGED <<legitimateTx, legitimateRx, attackTx, attackRx>>
    /\ UNCHANGED <<aggPc, lossOut, blockedOut>>

\* the output after the loop: "Packet Loss: " and, for the attack traffic, "Blocked: "
AggReport ==
    /\ aggPc = "loop"
    /\ lossOut' = Lost(legitimateTx, legitimateRx)
    /\ blockedOut' = Lost(attackTx, attackRx)
    /\ aggPc' = "done"
    /\ UNCHANGED <<legitimateTx, legitimateRx, attackTx, attackRx>>

----------------------------------------------------------------------------
(* The security scenario: the router between the client and the server *)

SimSeconds       == 40          \* double simTime = 40.0
EchoStartSeconds == 2           \* clientApps.Start(Seconds(2.0))
EchoPerSecond    == 10          \* Interval 0.1 s
EchoMaxPackets   == 1000        \* MaxPackets
LimitEnabled     == 3000000     \* rateLimiter->SetLimit(DataRate("3Mbps"))
LimitDefault     == 1000000     \* m_rateLimit(DataRate("1Mbps"))

GateIdle ==
    /\ enableRateLimiting = FALSE /\ atRouter = 0 /\ forwarded = 0

----------------------------------------------------------------------------
(* The multi-hop scenario (exercise4_multi_hop_wan.cc main): the failure and *)
(* the restoration of the primary link DC - DR are scheduled from the        *)
(* command-line parameters failureTime, simTime and restoreLink.             *)

RestoreAfter == 10          \* Seconds(failureTime + 10.0)

\* if (failureTime > 0 && failureTime < simTime)
FailureScheduled(ft, st) == ft > 0 /\ ft < st

RestoreScheduledMutUnnested(ft, st, rl) == rl /\ ft + RestoreAfter < st

\* the inner test, reached only inside the outer one:
\* if (restoreLink && failureTime + 10.0 < simTime)
RestoreScheduled(ft, st, rl) ==
    FailureScheduled(ft, st) /\ rl /\ ft + RestoreAfter < st

HopIdle ==
    /\ failureTime = 0 /\ simTime = 0 /\ restoreLink = FALSE
    /\ restorePending = FALSE /\ linkLog = <<>>

----------------------------------------------------------------------------
(* Classification in the QoS scenario (unnamed/part_000).                    *)

NoKind == "none"
Kinds  == {"voip", "ftp"}

\* the priorities a packet of an application can carry at the queue disc.
\* The BulkSend (FTP) sockets set no TOS and no priority: priority 0.
\* VoipApplication::SendPacket tags every packet with TOS 0xB8; the priority
\* the IP layer derives from that byte is not decided by this program (the
\* framework's TOS-to-priority table gives 4 for 0xB8), so any is admitted.
PrioritiesOf(kind) == IF kind = "ftp" THEN {0} ELSE Priorities

----------------------------------------------------------------------------
(* The flow-statistics loops of the three aggregators.                       *)

\* a double that holds the quotient num / den, den > 0
Ratio(n, d) == [num |-> n, den |-> d]
RLess(r, k) == r.num < k * r.den
RLeq(a, b)  == a.num * b.den <= b.num * a.den

VerdictMutGoodFirst(delay, loss) ==
    IF RLess(delay, 300) /\ RLess(loss, 3) THEN "GOOD"
    ELSE IF RLess(delay, 150) /\ RLess(loss, 1) THEN "EXCELLENT"
    ELSE IF RLess(delay, 400) /\ RLess(loss, 5) THEN "ACCEPTABLE"
    ELSE "POOR"

\* the VoIP quality verdict of the QoS analysis, from the average delay (ms)
\* and the average loss (%)
Verdict(delay, loss) ==
    IF RLess(delay, 150) /\ RLess(loss, 1) THEN "EXCELLENT"
    ELSE IF RLess(delay, 300) /\ RLess(loss, 3) THEN "GOOD"
    ELSE IF RLess(delay, 400) /\ RLess(loss, 5) THEN "ACCEPTABLE"
    ELSE "POOR"

\* the doubles of the analysis are held as reduced fractions
RECURSIVE Gcd(_, _)
Gcd(a, b) == IF b = 0 THEN a ELSE Gcd(b, a % b)
Norm(n, d) == LET g == Gcd(n, d) IN Ratio(n \div g, d \div g)
RAdd(a, b) == Norm(a.num * b.den + b.num * a.den, a.den * b.den)
RDiv(a, k) == Norm(a.num, a.den * k)

Aggregators == {"qos", "multihop", "multisite"}

\* a FlowStats of the flow monitor: the packet counters, delaySum in ms,
\* timeLastRxPacket - timeFirstTxPacket in ns, and the category of the flow
NoFlow == [txPackets |-> 0, rxPackets |-> 0, lostPackets |-> 0, delaySum |-> 0,
           duration |-> 0, isVoip |-> FALSE]
NoOut  == [handled |-> FALSE]
NoSummary == [delay |-> Ratio(0, 1), loss |-> Ratio(0, 1), verdict |-> "none"]
NoPool == [delay |-> 0, rx |-> 0, flows |-> 0]

\* double lossRatio = (txPackets > 0) ? (double)lostPackets / txPackets * 100.0 : 0;
LossRatio(f) ==
    IF f.txPackets > 0 THEN Norm(f.lostPackets * 100, f.txPackets) ELSE Ratio(0, 1)

EpsilonNs == 1          \* duration = 1e-9 (seconds)

\* the divisor of the throughput: the multi-site loop replaces a duration
\* <= 0 by 1e-9 s, the multi-hop and the QoS loops divide by the difference
DurationUsed(agg, d) == IF agg = "multisite" /\ d <= 0 THEN EpsilonNs ELSE d

\* double avgDelay = delaySum.GetMilliSeconds() / rxPackets: both operands are
\* integers, the quotient is truncated before it becomes a double
AvgDelay(f) == f.delaySum \div f.rxPackets

\* what the loop body prints for one flow
FlowOut(agg, f) ==
    [handled     |-> TRUE,
     lostPackets |-> f.lostPackets,
     ratioDone   |-> agg # "multisite",
     lossRatio   |-> LossRatio(f),
     computed    |-> f.rxPackets > 0,
     duration    |-> IF f.rxPackets > 0 THEN DurationUsed(agg, f.duration) ELSE 0,
     avgDelay    |-> IF f.rxPackets > 0 THEN AvgDelay(f) ELSE 0]

FlowLoopIdle ==
    /\ aggregator = "none" /\ flow = NoFlow /\ flowOut = NoOut
    /\ voipAvgDelay = 0 /\ voipLoss = Ratio(0, 1) /\ voipFlows = 0
    /\ pooled = NoPool /\ fsPc = "idle"

FlowIdle == FlowLoopIdle /\ summary = NoSummary

\* the components a scenario does not use
restVars == <<solo, gateVars, queueVars, genVars, aggVars, moreVars>>
MoreIdle == HopIdle /\ lastKind = NoKind /\ FlowIdle
RestIdle == solo = NoSolo /\ GateIdle /\ QueueIdle /\ GenIdle /\ AggIdle /\ MoreIdle

----------------------------------------------------------------------------
(* Initial values shared by the specifications *)

NoOp == <<"none", "", "">>

\* exercise5.cc main: the router's entry for the steered network, via cloudA
PbrTable == <<Entry(WatchedDest, Mask24, HopPrimary, 1, 0)>>

\* exercise 1 main: r0's PRIMARY route (direct, interface 2), then its BACKUP
\* route (via the branch, interface 1), both with the default metric
TriangleTable ==
    << Entry(OtherDest, Mask24, "10.1.3.2", PrimaryLink, 0),
       Entry(OtherDest, Mask24, "10.1.1.2", BackupLink, 0) >>

ScenInit ==
    /\ now = 0 /\ failPending = FALSE /\ packetsSent = 0 /\ lastHop = 0
    /\ LimiterIdle

PbrInit ==
    /\ m_state = TRUE /\ toggles = 0

----------------------------------------------------------------------------
(* Spec: the table operations of the steering controller on one table *)

Init ==
    /\ routes = PbrTable /\ prevRoutes = PbrTable /\ lastOp = NoOp
    /\ PbrInit /\ LinksInit /\ ScenInit /\ RestIdle

AddRouteOp(d, m, gw) ==
    /\ Len(routes) < MaxRoutes
    /\ routes' = AddNetworkRouteTo(routes, d, m, gw, IfOf(gw), 0)
    /\ prevRoutes' = routes
    /\ lastOp' = <<"AddRoute", d, m>>
    /\ UNCHANGED <<m_state, toggles>>

RemoveRouteOp(d, m) ==
    /\ routes' = RemoveRoutes(routes, d, m)
    /\ prevRoutes' = routes
    /\ lastOp' = <<"RemoveRoute", d, m>>
    /\ UNCHANGED <<m_state, toggles>>

ToggleOp == Toggle /\ UNCHANGED toggles

Next ==
    /\ \/ \E d \in Dests, m \in Masks, gw \in Hops : AddRouteOp(d, m, gw)
       \/ \E d \in Dests, m \in Masks : RemoveRouteOp(d, m)
       \/ ToggleOp
    /\ UNCHANGED <<linkVars, scenVars, limVars, restVars>>

Spec == Init /\ [][Next]_vars

----------------------------------------------------------------------------
(* SpecFailover: one table with primary/backup entries, and the link events *)

Metrics == {1, 10}
GwOf(l) == IF l = PrimaryLink THEN "10.1.2.2" ELSE "10.1.1.2"

InitFailover ==
    /\ routes = <<>> /\ prevRoutes = <<>> /\ lastOp = NoOp
    /\ PbrInit /\ LinksInit /\ ScenInit /\ RestIdle

AddRouteF(d, l, metric) ==
    /\ Len(routes) < MaxRoutes
    /\ routes' = AddNetworkRouteTo(routes, d, Mask24, GwOf(l), l, metric)
    /\ UNCHANGED linkVars

RemoveRouteF(d) ==
    /\ routes' = RemoveRoutes(routes, d, Mask24)
    /\ UNCHANGED linkVars

NextFailover ==
    /\ \/ \E d \in Dests, l \in Links, metric \in Metrics : AddRouteF(d, l, metric)
       \/ \E d \in Dests : RemoveRouteF(d)
       \/ \E l \in Links : FailLink(l)
       \/ \E l \in Links : DisableDevice(l)
       \/ \E l \in Links : DisableLinkPair(l)
       \/ SimulateLinkFailure
       \/ RestoreLink
    /\ UNCHANGED <<m_state, toggles, prevRoutes, lastOp, scenVars, limVars, restVars>>

SpecFailover == InitFailover /\ [][NextFailover]_vars

----------------------------------------------------------------------------
(* SpecTriangle: the triangle scenario, the direct link fails at 4 s *)

FailSeconds     == 4
StopSeconds     == 15
ClientStartSecs == 2
ClientInterval  == 1
MaxPackets      == 20

FailTime == FailSeconds * TicksPerSec
StopTime == StopSeconds * TicksPerSec
NextSend == (ClientStartSecs + packetsSent * ClientInterval) * TicksPerSec

InitTriangle ==
    /\ routes = TriangleTable /\ prevRoutes = TriangleTable /\ lastOp = NoOp
    /\ PbrInit /\ LinksInit
    /\ now = 0 /\ failPending = TRUE /\ packetsSent = 0 /\ lastHop = 0
    /\ LimiterIdle /\ RestIdle

\* Simulator::Schedule(Seconds(4.0), &FailLink, d20.Get(0), d20.Get(1))
TriFailLink ==
    /\ failPending /\ now = FailTime
    /\ FailLink(PrimaryLink)
    /\ failPending' = FALSE
    /\ UNCHANGED <<now, packetsSent, lastHop>>

\* the echo client on HQ sends one packet to the data center: the packet is
\* forwarded by the entry the lookup returns.  FailLink was scheduled before
\* the run, so at 4 s it runs before the send of that instant.
TriClientSend ==
    /\ now = NextSend /\ now < StopTime /\ packetsSent < MaxPackets
    /\ ~(failPending /\ now = FailTime)
    /\ lastHop' = Lookup(routes, up, OtherDest)
    /\ packetsSent' = packetsSent + 1
    /\ UNCHANGED <<routes, linkVars, now, failPending>>

TriTick ==
    /\ now < StopTime
    /\ ~(failPending /\ now = FailTime)
    /\ ~(now = NextSend /\ packetsSent < MaxPackets)
    /\ now' = now + 1
    /\ UNCHANGED <<routes, linkVars, failPending, packetsSent, lastHop>>

NextTriangle ==
    /\ \/ TriFailLink
       \/ TriClientSend
       \/ TriTick
    /\ UNCHANGED <<m_state, toggles, prevRoutes, lastOp, limVars, restVars>>

SpecTriangle == InitTriangle /\ [][NextTriangle]_vars

----------------------------------------------------------------------------
(* SpecPbr: the steering scenario, Toggle runs every 5 s until the stop at 32 s *)

ToggleSeconds  == 5
PbrStopSeconds == 32

NextToggle == ToggleSeconds * TicksPerSec * (toggles + 1)
PbrStop    == PbrStopSeconds * TicksPerSec

\* Simulator::Schedule(Seconds(5.0), &PbrController::Toggle, this), in Start and
\* again at the end of every Toggle
PbrToggle ==
    /\ now = NextToggle /\ now < PbrStop
    /\ Toggle
    /\ toggles' = toggles + 1
    /\ UNCHANGED now

PbrTick ==
    /\ now < PbrStop /\ now # NextToggle
    /\ now' = now + 1
    /\ UNCHANGED routeVars

NextPbr ==
    /\ \/ PbrToggle
       \/ PbrTick
    /\ UNCHANGED <<linkVars, failPending, packetsSent, lastHop, limVars, restVars>>

SpecPbr == Init /\ [][NextPbr]_vars

----------------------------------------------------------------------------
(* SpecLimiter: packets of any size and source arrive at any time, the limit
   is set at any time *)
InitLimiter ==
    /\ routes = <<>> /\ prevRoutes = <<>> /\ lastOp = NoOp
    /\ PbrInit /\ LinksInit
    /\ now = 0 /\ failPending = FALSE /\ packetsSent = 0 /\ lastHop = 0
    /\ LimiterInit /\ RestIdle

LimTick ==
    /\ now < MaxWindows * WindowTicks
    /\ now' = now + 1
    /\ UNCHANGED limVars

NextLimiter ==
    \/ /\ \E size \in Sizes, from \in Sources : AllowPacket(size, from)
       /\ UNCHANGED <<routeVars, linkVars, scenVars, restVars>>
    \/ /\ \E rate \in Rates : SetLimit(rate)
       /\ UNCHANGED <<routeVars, linkVars, scenVars, restVars>>
    \/ /\ LimTick
       /\ UNCHANGED <<routeVars, linkVars, failPending, packetsSent, lastHop, restVars>>

SpecLimiter == InitLimiter /\ [][NextLimiter]_vars

(* SpecStream: a fixed limit, and in every window packets of one size S > 0 *)
StreamPacket ==
    \E size \in Sizes \ {0}, from \in Sources :
        /\ (lastCall.called /\ ~WindowExpired(now, m_windowStart)) => size = lastCall.size
        /\ AllowPacket(size, from)

NextStream ==
    \/ /\ StreamPacket
       /\ UNCHANGED <<routeVars, linkVars, scenVars, restVars>>
    \/ /\ LimTick
       /\ UNCHANGED <<routeVars, linkVars, failPending, packetsSent, lastHop, restVars>>

SpecStream == InitLimiter /\ [][NextStream]_vars

(* SpecSources: a fixed limit, packets of two sources; beside the limiter, a
   second limiter that is given the packets of SourceA only *)
SrcPacket(size, from) ==
    /\ AllowPacket(size, from)
    /\ solo' = IF from = SourceA
               THEN LET r == Admit(solo.bytes, solo.start, now, size, m_rateLimit)
                    IN  [bytes |-> r.bytes, start |-> r.start, ok |-> r.ok, from |-> from]
               ELSE [solo EXCEPT !.from = from]

NextSources ==
    \/ /\ \E size \in Sizes, from \in {SourceA, SourceB} : SrcPacket(size, from)
       /\ UNCHANGED <<routeVars, linkVars, scenVars, gateVars, queueVars, genVars, aggVars,
                       moreVars>>
    \/ /\ LimTick
       /\ UNCHANGED <<routeVars, linkVars, failPending, packetsSent, lastHop, restVars>>

SpecSources == InitLimiter /\ [][NextSources]_vars

----------------------------------------------------------------------------
(* SpecGate: the security scenario with its echo client; the router forwards
   what reaches it *)

SimStop      == SimSeconds * TicksPerSec
EchoNextSend == EchoStartSeconds * TicksPerSec + (packetsSent * TicksPerSec) \div EchoPerSecond

\* main: CreateObject<RateLimiter>(); if (enableRateLimiting) SetLimit(DataRate("3Mbps"))
InitGate ==
    /\ routes = <<>> /\ prevRoutes = <<>> /\ lastOp = NoOp
    /\ PbrInit /\ LinksInit
    /\ now = 0 /\ failPending = FALSE /\ packetsSent = 0 /\ lastHop = 0
    /\ enableRateLimiting \in BOOLEAN
    /\ m_rateLimit = IF enableRateLimiting THEN LimitEnabled ELSE LimitDefault
    /\ m_bytesInWindow = 0 /\ m_windowStart = 0 /\ m_droppedPackets = 0
    /\ calls = 0 /\ lastCall = NoCall /\ win = NoWin
    /\ atRouter = 0 /\ forwarded = 0
    /\ solo = NoSolo /\ QueueIdle /\ GenIdle /\ AggIdle /\ MoreIdle

\* the echo client sends a packet; it reaches the router
GateClientSend ==
    /\ now = EchoNextSend /\ now < SimStop /\ packetsSent < EchoMaxPackets
    /\ packetsSent' = packetsSent + 1
    /\ atRouter' = atRouter + 1
    /\ UNCHANGED <<now, forwarded>>

\* the router's IP layer forwards the packet to the server: main installs
\* nothing on the forwarding path, the rate limiter's AllowPacket has no caller
GateForward ==
    /\ atRouter > 0
    /\ atRouter' = atRouter - 1
    /\ forwarded' = forwarded + 1
    /\ UNCHANGED <<now, packetsSent>>

GateTick ==
    /\ now < SimStop /\ atRouter = 0
    /\ ~(now = EchoNextSend /\ packetsSent < EchoMaxPackets)
    /\ now' = now + 1
    /\ UNCHANGED <<packetsSent, atRouter, forwarded>>

NextGate ==
    /\ \/ GateClientSend
       \/ GateForward
       \/ GateTick
    /\ UNCHANGED <<routeVars, linkVars, failPending, lastHop, limVars, solo,
                   enableRateLimiting, queueVars, genVars, aggVars, moreVars>>

SpecGate == InitGate /\ [][NextGate]_vars

----------------------------------------------------------------------------
(* SpecQueue: packets of any priority reach the queue disc, the device
   dequeues at any time *)

InitQueue ==
    /\ routes = <<>> /\ prevRoutes = <<>> /\ lastOp = NoOp
    /\ PbrInit /\ LinksInit /\ ScenInit /\ RestIdle

NextQueue ==
    /\ \/ \E prio \in Priorities : Enqueue(prio)
       \/ Dequeue
    /\ UNCHANGED <<routeVars, linkVars, scenVars, limVars, solo, gateVars, genVars, aggVars,
                   moreVars>>

SpecQueue == InitQueue /\ [][NextQueue]_vars

----------------------------------------------------------------------------
(* SpecGenerator: one generator between the Start and the Stop the framework
   schedules for it, in this order, when the run begins *)

StopDelays ==
    LET I == Interval(PacketSizeOf(variant), RateOf(variant))
    IN  {k * I + j : k \in 0..(MaxSends - 1), j \in {0, 1}}

InitGenerator ==
    /\ routes = <<>> /\ prevRoutes = <<>> /\ lastOp = NoOp
    /\ PbrInit /\ LinksInit /\ ScenInit
    /\ solo = NoSolo /\ GateIdle /\ QueueIdle /\ AggIdle /\ MoreIdle
    /\ variant \in Variants
    /\ m_nPackets \in (IF variant = "cbr" THEN 0..MaxN ELSE {0})
    /\ m_running = FALSE /\ m_packetsSent = 0 /\ m_sendEvent = 0
    /\ \E s \in StartDelays : \E d \in StopDelays :
          events = {[at |-> s, uid |-> 1, kind |-> "Start"],
                    [at |-> s + d, uid |-> 2, kind |-> "Stop"]}
    /\ nextUid = 3
    /\ sendLog = <<>> /\ startedAt = -1 /\ stopRan = FALSE

GenStart ==
    /\ events # {} /\ HeadEvent.kind = "Start"
    /\ now' = HeadEvent.at
    /\ StartApplication(HeadEvent)
    /\ UNCHANGED <<variant, m_nPackets>>

GenSend ==
    /\ events # {} /\ HeadEvent.kind = "Send"
    /\ Len(sendLog) < MaxSends
    /\ now' = HeadEvent.at
    /\ SendPacket(m_running, m_packetsSent, events \ {HeadEvent}, HeadEvent.at)
    /\ UNCHANGED <<variant, m_nPackets, m_running, startedAt, stopRan>>

GenStop ==
    /\ events # {} /\ HeadEvent.kind = "Stop"
    /\ now' = HeadEvent.at
    /\ StopApplication(HeadEvent)
    /\ UNCHANGED <<variant, m_nPackets>>

NextGenerator ==
    /\ \/ GenStart
       \/ GenSend
       \/ GenStop
    /\ UNCHANGED <<routeVars, linkVars, failPending, packetsSent, lastHop, limVars,
                   solo, gateVars, queueVars, aggVars, moreVars>>

SpecGenerator == InitGenerator /\ [][NextGenerator]_vars

----------------------------------------------------------------------------
(* SpecAggregate: the security analysis over any flow statistics *)

InitAggregate ==
    /\ routes = <<>> /\ prevRoutes = <<>> /\ lastOp = NoOp
    /\ PbrInit /\ LinksInit /\ ScenInit /\ RestIdle

NextAggregate ==
    /\ \/ \E src \in FlowSources, tx \in 0..MaxCount, rx \in 0..MaxCount : AggFlow(src, tx, rx)
       \/ AggReport
    /\ UNCHANGED <<routeVars, linkVars, scenVars, limVars, solo, gateVars, queueVars, genVars,
                   moreVars>>

SpecAggregate == InitAggregate /\ [][NextAggregate]_vars

----------------------------------------------------------------------------
(* The QoS scenario: the packets of the two applications reach the priority *)
(* queue disc of the router's WAN interface (enableQos).                    *)

\* a packet of the application arrives at the queue disc
QosArrive(kind) ==
    /\ \E prio \in PrioritiesOf(kind) : Enqueue(prio)
    /\ lastKind' = kind

NextQos ==
    /\ \/ \E kind \in Kinds : QosArrive(kind)
       \/ Dequeue /\ UNCHANGED lastKind
    /\ UNCHANGED <<routeVars, linkVars, scenVars, limVars, solo, gateVars, genVars, aggVars,
                   hopVars, flowVars>>

SpecQos == InitQueue /\ [][NextQos]_vars

----------------------------------------------------------------------------
(* The verdict of the QoS analysis as a function of its two inputs: average *)
(* delays in half milliseconds and average losses in tenths of a percent,   *)
(* on and around every threshold.                                            *)

HalfMs   == {0, 299, 300, 301, 599, 600, 601, 799, 800, 801, 1000}
TenthPct == {0, 9, 10, 11, 29, 30, 31, 49, 50, 51, 100}
DelayInputs == {Ratio(h, 2) : h \in HalfMs}
LossInputs  == {Ratio(t, 10) : t \in TenthPct}

InitVerdict ==
    /\ routes = <<>> /\ prevRoutes = <<>> /\ lastOp = NoOp
    /\ PbrInit /\ LinksInit /\ ScenInit
    /\ solo = NoSolo /\ GateIdle /\ QueueIdle /\ GenIdle /\ AggIdle
    /\ HopIdle /\ lastKind = NoKind /\ FlowLoopIdle
    /\ \E d \in DelayInputs, l \in LossInputs :
          summary = [delay |-> d, loss |-> l, verdict |-> "none"]

\* the if / else if chain that prints the verdict
Judge ==
    /\ summary.verdict = "none"
    /\ summary' = [summary EXCEPT !.verdict = Verdict(summary.delay, summary.loss)]

NextVerdict ==
    /\ Judge
    /\ UNCHANGED <<routeVars, linkVars, scenVars, limVars, solo, gateVars, queueVars,
                   genVars, aggVars, hopVars, lastKind, aggregator, flow, flowOut,
                   voipAvgDelay, voipLoss, voipFlows, pooled, fsPc>>

SpecVerdict == InitVerdict /\ [][NextVerdict]_vars

----------------------------------------------------------------------------
(* The flow-statistics loop of a program, run over the flows the monitor    *)
(* reports, and the VoIP summary of the QoS program.                         *)

MaxFlows == 2

\* the flows the monitor can report: what was received or declared lost was
\* sent; packets still on their way at the end are neither
FlowCounts ==
    {c \in [txPackets : {0, 1, 2, 1000}, rxPackets : {0, 1, 2, 950},
            lostPackets : {0, 1, 20, 50}] :
        /\ c.rxPackets + c.lostPackets <= c.txPackets
        /\ c.txPackets = 1000 => c.rxPackets = 950}
DelaySums == {0, 3, 4}
Durations == {0 - NsPerSec, 0, NsPerSec}

Flows(agg) ==
    {f \in [txPackets : {0, 1, 2, 1000}, rxPackets : {0, 1, 2, 950},
            lostPackets : {0, 1, 20, 50}, delaySum : DelaySums, duration : Durations,
            isVoip : BOOLEAN] :
        /\ [txPackets |-> f.txPackets, rxPackets |-> f.rxPackets,
            lostPackets |-> f.lostPackets] \in FlowCounts
        /\ f.rxPackets = 0 => (f.delaySum = 0 /\ f.duration = 0)
        /\ f.isVoip => agg = "qos"}

InitFlowStats ==
    /\ routes = <<>> /\ prevRoutes = <<>> /\ lastOp = NoOp
    /\ PbrInit /\ LinksInit /\ ScenInit
    /\ solo = NoSolo /\ GateIdle /\ QueueIdle /\ GenIdle /\ AggIdle
    /\ HopIdle /\ lastKind = NoKind
    /\ aggregator \in Aggregators
    /\ flow = NoFlow /\ flowOut = NoOut
    /\ voipAvgDelay = 0 /\ voipLoss = Ratio(0, 1) /\ voipFlows = 0
    /\ pooled = NoPool /\ summary = NoSummary /\ fsPc = "loop"

\* one iteration of for (auto& flow : stats)
FlowStep(f) ==
    LET out   == FlowOut(aggregator, f)
        counts == aggregator = "qos" /\ f.rxPackets > 0 /\ f.isVoip
    IN  /\ fsPc = "loop" /\ pooled.flows < MaxFlows
        /\ flow' = f
        /\ flowOut' = out
        /\ voipAvgDelay' = IF counts THEN voipAvgDelay + out.avgDelay ELSE voipAvgDelay
        /\ voipLoss' = IF counts THEN RAdd(voipLoss, out.lossRatio) ELSE voipLoss
        /\ voipFlows' = IF counts THEN voipFlows + 1 ELSE voipFlows
        /\ pooled' = [delay |-> IF f.isVoip THEN pooled.delay + f.delaySum ELSE pooled.delay,
                      rx    |-> IF f.isVoip THEN pooled.rx + f.rxPackets ELSE pooled.rx,
                      flows |-> pooled.flows + 1]
        /\ UNCHANGED <<aggregator, summary, fsPc>>

\* the summary after the loop: if (voipFlows > 0) the averages and the verdict
FlowSummary ==
    /\ fsPc = "loop"
    /\ fsPc' = "done"
    /\ summary' = IF aggregator = "qos" /\ voipFlows > 0
                  THEN LET avgDelay == Norm(voipAvgDelay, voipFlows)
                           avgLoss  == RDiv(voipLoss, voipFlows)
                       IN  [delay |-> avgDelay, loss |-> avgLoss,
                            verdict |-> Verdict(avgDelay, avgLoss)]
                  ELSE NoSummary
    /\ UNCHANGED <<aggregator, flow, flowOut, voipAvgDelay, voipLoss, voipFlows, pooled>>

NextFlowStats ==
    /\ \/ \E f \in Flows(aggregator) : FlowStep(f)
       \/ FlowSummary
    /\ UNCHANGED <<routeVars, linkVars, scenVars, limVars, solo, gateVars, queueVars,
                   genVars, aggVars, hopVars, lastKind>>

SpecFlowStats == InitFlowStats /\ [][NextFlowStats]_vars

----------------------------------------------------------------------------
(* The multi-hop scenario: main schedules the two link handlers from its    *)
(* parameters; the simulator runs them at their times and stops at simTime. *)

FailureTimes == {0 - 5, 0, 5, 10, 15, 25}
SimTimes     == {20, 30}

FailAt    == failureTime * TicksPerSec
RestoreAt == (failureTime + RestoreAfter) * TicksPerSec

InitMultiHop ==
    /\ routes = <<>> /\ prevRoutes = <<>> /\ lastOp = NoOp
    /\ PbrInit /\ LinksInit /\ LimiterIdle
    /\ now = 0 /\ packetsSent = 0 /\ lastHop = 0
    /\ failureTime \in FailureTimes /\ simTime \in SimTimes /\ restoreLink \in BOOLEAN
    /\ failPending = FailureScheduled(failureTime, simTime)
    /\ restorePending = RestoreScheduled(failureTime, simTime, restoreLink)
    /\ linkLog = <<>>
    /\ solo = NoSolo /\ GateIdle /\ QueueIdle /\ GenIdle /\ AggIdle
    /\ lastKind = NoKind /\ FlowIdle

\* the event scheduled at Seconds(failureTime)
HopFail ==
    /\ failPending /\ now = FailAt
    /\ SimulateLinkFailure
    /\ failPending' = FALSE
    /\ linkLog' = Append(linkLog, <<"SimulateLinkFailure", now>>)
    /\ UNCHANGED <<now, restorePending>>

\* the event scheduled at Seconds(failureTime + 10.0)
HopRestore ==
    /\ restorePending /\ now = RestoreAt
    /\ RestoreLink
    /\ restorePending' = FALSE
    /\ linkLog' = Append(linkLog, <<"RestoreLink", now>>)
    /\ UNCHANGED <<now, failPending>>

\* the clock advances to the next instant; Simulator::Stop(Seconds(simTime))
HopTick ==
    /\ now < simTime * TicksPerSec
    /\ ~(failPending /\ now = FailAt)
    /\ ~(restorePending /\ now = RestoreAt)
    /\ now' = now + 1
    /\ UNCHANGED <<linkVars, routes, failPending, restorePending, linkLog>>

NextMultiHop ==
    /\ \/ HopFail
       \/ HopRestore
       \/ HopTick
    /\ UNCHANGED <<m_state, toggles, prevRoutes, lastOp, packetsSent, lastHop, limVars,
                   failureTime, simTime, restoreLink, solo, gateVars, queueVars, genVars,
                   aggVars, lastKind, flowVars>>

SpecMultiHop == InitMultiHop /\ [][NextMultiHop]_vars

----------------------------------------------------------------------------
(* Properties of the routing and failover engine *)

\* the Up entries of the table for destination d
UpFor(d) == {i \in 1..Len(routes) : routes[i].dest = d /\ LinkUp(routes[i].ifc)}

ExactCount(t, d, m) == Cardinality({i \in 1..Len(t) : t[i].dest = d /\ t[i].mask = m})
Others(t, d, m) == SelectSeq(t, LAMBDA e : ~(e.dest = d /\ e.mask = m))

\* C1: whatever the table and the link states reached by AddRoute, RemoveRoute,
\* failure and restore events, Lookup never returns an entry whose egress link
\* is Down.
C1_LookupNeverDown ==
    \A d \in Dests :
        LET r == Lookup(routes, up, d)
        IN  r # 0 => r \in 1..Len(routes) /\ LinkUp(routes[r].ifc)

\* a Down entry for d is better (lower metric, inserted first) than the Up one returned
C1_Witness ==
    \E d \in Dests : \E i \in 1..Len(routes) :
        /\ routes[i].dest = d /\ ~LinkUp(routes[i].ifc)
        /\ Lookup(routes, up, d) > i
        /\ routes[i].metric < routes[Lookup(routes, up, d)].metric

\* C2: Lookup(d) returns an Up entry for d of minimal metric among the Up
\* entries for d, returns "unreachable" exactly when d has no Up entry, and the
\* entries for other destinations do not change the result.
C2_LookupLowestUp ==
    \A d \in Dests :
        LET r   == Lookup(routes, up, d)
            own == SelectSeq(routes, LAMBDA e : e.dest = d)
            r2  == Lookup(own, up, d)
        IN  /\ (r = 0) <=> (UpFor(d) = {})
            /\ r # 0 => /\ r \in UpFor(d)
                        /\ \A j \in UpFor(d) : routes[r].metric <= routes[j].metric
            /\ (r = 0) <=> (r2 = 0)
            /\ r # 0 => routes[r] = own[r2]

\* the returned entry was inserted after a worse Up entry for the same destination,
\* another destination has entries too, and some destination is unreachable
\* although it has entries
C2_Witness ==
    /\ \E d \in Dests : \E i \in UpFor(d) :
          /\ i < Lookup(routes, up, d)
          /\ routes[Lookup(routes, up, d)].metric < routes[i].metric
          /\ \E k \in 1..Len(routes) : routes[k].dest # d /\ ~LinkUp(routes[k].ifc)
          /\ \E d2 \in Dests : d2 # d /\ Lookup(routes, up, d2) = 0

\* C5: of two Up entries for the same destination with the same metric, Lookup
\* returns the one inserted first.
C5_TieFirstInserted ==
    \A d \in Dests :
        LET r == Lookup(routes, up, d)
        IN  r # 0 =>
              \A j \in UpFor(d) : routes[j].metric = routes[r].metric => r <= j

C5_Witness ==
    \E d \in Dests : \E i, j \in UpFor(d) :
        /\ i < j /\ routes[i].metric = routes[j].metric
        /\ routes[i].ifc # routes[j].ifc
        /\ Lookup(routes, up, d) = i

C6_RemoveNoMatchNoOp ==
    (lastOp[1] = "RemoveRoute" /\ ExactCount(prevRoutes, lastOp[2], lastOp[3]) = 0)
        => /\ routes = prevRoutes
           /\ RemoveRoutes(routes, lastOp[2], lastOp[3]) = routes

\* the table holds an entry for the same destination under another mask
C6_Witness ==
    /\ lastOp[1] = "RemoveRoute"
    /\ ExactCount(prevRoutes, lastOp[2], lastOp[3]) = 0
    /\ \E i \in 1..Len(prevRoutes) : prevRoutes[i].dest = lastOp[2]
    /\ routes = prevRoutes

\* C8: after every Toggle the table holds exactly one entry for the watched
\* destination 10.200.0.0/24, and the entries for every other destination or
\* mask are those of before, in the same order.
C8_ToggleOneWatchedEntry ==
    lastOp[1] = "Toggle" =>
        /\ ExactCount(routes, WatchedDest, Mask24) = 1
        /\ Others(routes, WatchedDest, Mask24) = Others(prevRoutes, WatchedDest, Mask24)

\* Toggle ran on a table with several entries for the watched destination and others
C8_Witness ==
    /\ lastOp[1] = "Toggle"
    /\ ExactCount(prevRoutes, WatchedDest, Mask24) >= 2
    /\ Others(prevRoutes, WatchedDest, Mask24) # <<>>
    /\ ExactCount(routes, WatchedDest, Mask24) = 1

\* C3: in the triangle scenario the direct link goes Down at 4.0 s; the table
\* holds the preferred entry through that link and the backup entry through a
\* link that stays Up; every lookup before 4.0 s returns the preferred entry
\* and every lookup after the failure event returns the backup entry.
LastSendTime == (ClientStartSecs + (packetsSent - 1) * ClientInterval) * TicksPerSec

ActiveHops ==
    LET w == SelectSeq(routes, LAMBDA e : e.dest = WatchedDest /\ e.mask = Mask24)
    IN  [i \in 1..Len(w) |-> w[i].gw]

C7_HopByParity ==
    ActiveHops = << IF toggles % 2 = 0 THEN HopPrimary ELSE HopSecondary >>

----------------------------------------------------------------------------
(* Properties of the admission controller *)

\* C9: with a fixed limit and packets of one size S > 0 that all arrive in one
\* window that starts empty, AllowPacket allows exactly floor(maxBytes / S)
\* packets of that window, maxBytes being the limit in bytes per second times
\* the window size, and denies every later one.
C9_AllowsFloorPerWindow ==
    lastCall.called =>
        LET quota == ((lastCall.limit \div 8) * WindowSeconds) \div lastCall.size
        IN  /\ win.allowed <= quota
            /\ win.denied > 0 => win.allowed = quota
            /\ lastCall.allowed => win.denied = 0

\* a window after the first one: maxBytes is no multiple of S, the quota was
\* allowed and two more packets were denied
C9_Witness ==
    /\ lastCall.called /\ m_windowStart > 0
    /\ lastCall.size = 2 /\ lastCall.limit \div 8 = MaxBurst
    /\ win.allowed = MaxBurst \div 2 /\ win.allowed > 1 /\ win.denied = 2

\* C10: when the rate limit is zero AllowPacket denies every packet, whatever
\* its size (size 0 included) and whatever its arrival time.
C10_ZeroLimitDeniesAll ==
    (lastCall.called /\ lastCall.limit = 0) => ~lastCall.allowed

\* C11: the reset boundary is inclusive: a packet arriving at exactly
\* windowStart + windowSize (or later) is judged against an empty window whose
\* start is its arrival time; a packet arriving strictly before
\* windowStart + windowSize is judged against the bytes accumulated and leaves
\* windowStart unchanged.
C11_ResetBoundaryInclusive ==
    [][calls' = calls + 1 =>
         LET size  == lastCall'.size
             quota == (lastCall'.limit \div 8) * WindowSeconds
         IN  IF now >= m_windowStart + WindowTicks
             THEN /\ m_windowStart' = now
                  /\ lastCall'.allowed = (size <= quota)
                  /\ m_bytesInWindow' = IF size <= quota THEN size ELSE 0
             ELSE /\ m_windowStart' = m_windowStart
                  /\ lastCall'.allowed = (m_bytesInWindow + size <= quota)
                  /\ m_bytesInWindow' = IF m_bytesInWindow + size <= quota
                                        THEN m_bytesInWindow + size ELSE m_bytesInWindow]_vars

\* the second call of the run arrived at exactly windowStart + windowSize, after
\* a call that arrived inside the first window: it opened a window of its own
\* and was allowed maxBytes
C11_Witness ==
    /\ calls = 2 /\ m_droppedPackets = 0
    /\ now = WindowTicks /\ m_windowStart = WindowTicks
    /\ win.allowed = 1 /\ win.denied = 0
    /\ lastCall.size = 2 /\ lastCall.limit \div 8 = 2
    /\ m_bytesInWindow = 2

\* C12: the limiter's state is per source: the decisions for the packets of
\* SourceA are those of a run in which SourceA sends the same packets at the
\* same times and the other source sends nothing.
C12_DecisionsPerSource ==
    (lastCall.called /\ solo.from = SourceA) => lastCall.allowed = solo.ok

\* C13: with rate limiting enabled, every packet that reaches the router is
\* passed to AllowPacket before it is forwarded: no more packets are forwarded
\* than AllowPacket has allowed.
C13_ForwardOnlyAllowed ==
    enableRateLimiting => forwarded <= calls - m_droppedPackets

----------------------------------------------------------------------------
(* Properties of the priority queue discipline *)

\* C14: Dequeue returns a class-1 packet only when class 0 is empty at that
\* moment: no dequeue returns a class-1 packet while a class-0 packet is queued.
C14_StrictPriority ==
    (lastQ.op = "Dequeue" /\ lastQ.cls # -1) =>
        /\ lastQ.cls = 1 => lastQ.high = 0
        /\ lastQ.high > 0 => lastQ.cls = 0

\* class 1 held more packets than class 0 and its head was older than the
\* class-0 packet that was dequeued
C14_Witness ==
    /\ lastQ.op = "Dequeue" /\ lastQ.cls = 0 /\ lastQ.high = 1
    /\ Len(bands[2]) = QCap
    /\ lastQ.pkt > Head(bands[2])

\* C15: Enqueue into a class whose FIFO is at capacity drops the arriving packet
\* and leaves every class's FIFO as it was; a packet for a class that has room
\* is appended to that class whatever the other classes hold.
C15_TailDropFrame ==
    [][(lastQ' # lastQ /\ lastQ'.op = "Enqueue") =>
         LET c == lastQ'.cls
         IN  IF Len(bands[c + 1]) >= QCap
             THEN bands' = bands
             ELSE /\ bands'[c + 1] = Append(bands[c + 1], lastQ'.pkt)
                  /\ \A d \in Classes : d # c => bands'[d + 1] = bands[d + 1]]_vars

\* a packet for the full class 1 was dropped while class 0 had room and held a packet
C15_Witness ==
    /\ lastQ.op = "Enqueue" /\ lastQ.cls = 1 /\ lastQ.full
    /\ Len(bands[2]) = QCap /\ Len(bands[1]) = 1
    /\ \A i \in 1..Len(bands[2]) : bands[2][i] # lastQ.pkt

----------------------------------------------------------------------------
(* Properties of the traffic generators *)

\* the pacing interval packetSize * 8 / rate of the two generators, nanoseconds
PacingNs == IF variant = "cbr" THEN 20000000 ELSE 4096000

PendingSends == {e \in events : e.kind = "Send"}

\* C16: once StopApplication has executed, no SendPacket / SendAttackPacket of
\* the generator executes afterwards.
C16_NoSendAfterStop ==
    [][stopRan => sendLog' = sendLog]_vars

\* Stop ran at the timestamp of the pending send, which never ran
C16_Witness ==
    /\ stopRan /\ events = {}
    /\ Len(sendLog) >= 2 /\ MoreToSend(Len(sendLog))
    /\ now = sendLog[Len(sendLog)] + PacingNs

\* C17: Start moves the generator to Running and sends one packet at the
\* instant of Start; each following send happens exactly one pacing interval
\* after the previous one, for as long as the generator is Running and, for
\* the CBR variant, the packet-count limit is not reached.
C17_PacedSends ==
    /\ startedAt < 0 => (sendLog = <<>> /\ ~m_running /\ PendingSends = {})
    /\ startedAt >= 0 =>
          /\ Len(sendLog) >= 1 /\ sendLog[1] = startedAt
          /\ m_running = ~stopRan
          /\ \A k \in 2..Len(sendLog) : sendLog[k] = sendLog[k - 1] + PacingNs
          /\ IF m_running /\ (variant = "cbr" => Len(sendLog) < m_nPackets)
             THEN \E e \in events :
                     /\ PendingSends = {e}
                     /\ e.at = sendLog[Len(sendLog)] + PacingNs
             ELSE PendingSends = {}

\* a CBR generator that started late, sent its second packet one interval
\* after the first and has the next one pending
C17_Witness ==
    /\ variant = "cbr" /\ startedAt > 0 /\ m_running
    /\ Len(sendLog) = 2 /\ m_nPackets > 2
    /\ sendLog[2] = startedAt + 20000000
    /\ PendingSends # {}

\* C29: the generator has at most one pending send event, the one m_sendEvent
\* names; it has exactly one while Running with sends still due, and none when
\* it is not running or when the CBR limit was reached.
C29_OnePendingSend ==
    /\ Cardinality(PendingSends) <= 1
    /\ \A e \in PendingSends : e.uid = m_sendEvent
    /\ (m_running /\ (variant = "flood" \/ m_packetsSent < m_nPackets))
          => Cardinality(PendingSends) = 1
    /\ ~m_running => PendingSends = {}
    /\ (variant = "cbr" /\ startedAt >= 0 /\ m_packetsSent >= m_nPackets)
          => PendingSends = {}

\* a CBR generator that reached its limit of two or more packets while Running
C29_Witness ==
    /\ variant = "cbr" /\ m_running /\ ~stopRan
    /\ m_nPackets >= 2 /\ m_packetsSent = m_nPackets
    /\ PendingSends = {}

\* C18 as claimed: the CBR generator with packet-count limit N never sends more
\* than N packets, for every N >= 0, and sends exactly N when it is not stopped
\* before the N-th send.
C18_AtMostN ==
    variant = "cbr" =>
        /\ Len(sendLog) <= m_nPackets
        /\ (startedAt >= 0 /\ PendingSends = {} /\ ~stopRan) => Len(sendLog) = m_nPackets

NEff == IF m_nPackets = 0 THEN 1 ELSE m_nPackets

\* C18 amended: the CBR generator with packet-count limit N never sends more
\* than max(N, 1) packets (the packet of Start is sent before the limit is
\* looked at), and sends exactly max(N, 1) when it is not stopped before the
\* last of them.
C18_AtMostNOrOne ==
    variant = "cbr" =>
        /\ Len(sendLog) <= NEff
        /\ (startedAt >= 0 /\ PendingSends = {} /\ ~stopRan) => Len(sendLog) = NEff
        /\ (stopRan /\ now > startedAt + (NEff - 1) * PacingNs) => Len(sendLog) = NEff

\* the limit of MaxN was reached before Stop ran
C18_Witness ==
    /\ variant = "cbr" /\ m_nPackets = MaxN /\ Len(sendLog) = MaxN
    /\ stopRan /\ now > sendLog[Len(sendLog)]

----------------------------------------------------------------------------
(* Properties of the security analysis *)

\* C20: the lost-packet count of a category is txPackets - rxPackets and is
\* never negative: when rxPackets > txPackets the printed loss / blocked count
\* is 0.
C20_LossClamped ==
    aggPc = "done" =>
        /\ lossOut = IF legitimateRx > legitimateTx THEN Zero64
                     ELSE ToU64(legitimateTx - legitimateRx)
        /\ blockedOut = IF attackRx > attackTx THEN Zero64
                        ELSE ToU64(attackTx - attackRx)

\* m_bytesInWindow after the window check of a call made now
AfterWindowCheck == IF now - m_windowStart >= WindowTicks THEN 0 ELSE m_bytesInWindow

\* a call counts itself when, and only when, it denies
CountsDenial ==
    IF calls' = calls + 1
    THEN IF lastCall'.allowed
         THEN /\ m_droppedPackets' = m_droppedPackets
              /\ m_bytesInWindow' = AfterWindowCheck + lastCall'.size
         ELSE /\ m_droppedPackets' = m_droppedPackets + 1
              /\ m_bytesInWindow' = AfterWindowCheck
    ELSE m_droppedPackets' = m_droppedPackets

\* C27: a denied AllowPacket call increments the dropped counter by exactly one
\* and leaves bytesInWindow as it was after the window check; an allowed call
\* adds exactly the packet size to bytesInWindow and leaves the dropped counter
\* unchanged; nothing else changes the counter, which starts at zero, so it
\* equals the number of calls that returned deny.
C27_DroppedCountsDenials ==
    /\ [](m_droppedPackets <= calls /\ win.denied <= m_droppedPackets)
    /\ [](calls = 0 => m_droppedPackets = 0)
    /\ [][CountsDenial]_vars

\* two windows, each with one allowed packet that fills it and one denial
C27_Witness ==
    /\ calls = 4 /\ m_droppedPackets = 2 /\ m_windowStart > 0
    /\ win.allowed = 1 /\ win.denied = 1 /\ m_bytesInWindow = 2
    /\ ~lastCall.allowed

\* C28: after every AllowPacket call, bytesInWindow is at most maxBytes for
\* the limit in force at the call, also when SetLimit lowered the limit in the
\* middle of a window.
C28_WindowWithinLimit ==
    [][calls' = calls + 1 =>
         m_bytesInWindow' <= (lastCall'.limit \div 8) * WindowSeconds]_vars

\* C25: every packet sent by the VoIP generator (TOS 0xB8) is classified into
\* class 0 of the priority queue, and every unmarked FTP packet into class 1.
C25_VoipInClassZero ==
    lastQ.op = "Enqueue" =>
        /\ lastKind = "voip" => lastQ.cls = 0
        /\ lastKind = "ftp" => lastQ.cls = 1

----------------------------------------------------------------------------
(* Properties of the flow analysis *)

Verdicts == <<"EXCELLENT", "GOOD", "ACCEPTABLE", "POOR">>
Rank(v) == CHOOSE i \in 1..Len(Verdicts) : Verdicts[i] = v

\* C23: the verdict is a total function of (delay in ms, loss in %) that
\* follows the threshold table in order: delay < 150 and loss < 1 gives
\* excellent; else delay < 300 and loss < 3 gives good; else delay < 400 and
\* loss < 5 gives acceptable; else poor. Exactly one verdict is produced, and
\* a worse delay or a worse loss never yields a better verdict.
C23_VerdictTable ==
    summary.verdict # "none" =>
        LET d == summary.delay
            l == summary.loss
            v == summary.verdict
            excellent  == d.num < 150 * d.den /\ l.num < l.den
            good       == d.num < 300 * d.den /\ l.num < 3 * l.den
            acceptable == d.num < 400 * d.den /\ l.num < 5 * l.den
        IN  /\ Cardinality({i \in 1..Len(Verdicts) : Verdicts[i] = v}) = 1
            /\ (v = "EXCELLENT") = excellent
            /\ (v = "GOOD") = (~excellent /\ good)
            /\ (v = "ACCEPTABLE") = (~excellent /\ ~good /\ acceptable)
            /\ (v = "POOR") = (~excellent /\ ~good /\ ~acceptable)
            /\ \A d2 \in DelayInputs, l2 \in LossInputs :
                  (RLeq(d, d2) /\ RLeq(l, l2)) => Rank(v) <= Rank(Verdict(d2, l2))

\* a delay just under the first threshold with a loss on the second one is
\* judged acceptable
C23_Witness ==
    /\ summary.delay = Ratio(299, 2) /\ summary.loss = Ratio(30, 10)
    /\ summary.verdict = "ACCEPTABLE"

\* C21: lossRatio equals lostPackets / txPackets and is 0 when txPackets is 0;
\* a flow with txPackets = 1000 and rxPackets = 950 yields lostPackets = 50 and
\* a lossRatio of 5 % (0.05).
C21_LossRatio ==
    (flowOut.handled /\ flowOut.ratioDone) =>
        /\ flow.txPackets = 0 => flowOut.lossRatio = Ratio(0, 1)
        /\ flow.txPackets > 0 =>
              flowOut.lossRatio.num * flow.txPackets
                = 100 * flowOut.lostPackets * flowOut.lossRatio.den
        /\ (flow.txPackets = 1000 /\ flow.rxPackets = 950) =>
              (flowOut.lostPackets = 50 /\ flowOut.lossRatio = Ratio(5, 1))

\* C22: in every aggregator the throughput of a flow is computed with a
\* strictly positive duration: a difference lastReceiveTime - firstSendTime
\* that is zero or negative is replaced by a minimal positive epsilon.
C22_PositiveDuration ==
    (flowOut.handled /\ flowOut.computed) =>
        /\ flowOut.duration > 0
        /\ flow.duration <= 0 => flowOut.duration = EpsilonNs

\* C24: the average delay reported for a category equals the sum of the
\* delays of all received packets of all its flows divided by the received
\* packet count of the category, and is omitted when that count is 0.
C24_PooledAverage ==
    fsPc = "done" =>
        /\ pooled.rx = 0 => summary = NoSummary
        /\ summary # NoSummary =>
              summary.delay.num * pooled.rx = pooled.delay * summary.delay.den

----------------------------------------------------------------------------
(* Properties of the multi-hop scenario *)

PrimaryUp == devUp[PrimaryLink]

\* no handler is scheduled or has run unless 0 < failureTime < simTime, and
\* every RestoreLink in the log has a SimulateLinkFailure before it
OrderedLog ==
    /\ (failPending \/ restorePending \/ linkLog # <<>>)
          => (0 < failureTime /\ failureTime < simTime)
    /\ \A i \in 1..Len(linkLog) :
          linkLog[i][1] = "RestoreLink"
            => \E j \in 1..(i - 1) : linkLog[j][1] = "SimulateLinkFailure"

\* the primary link changes state only in the two handlers, at their times
StateChangeInHandler ==
    (devUp'[PrimaryLink] # devUp[PrimaryLink]) =>
        \/ /\ PrimaryUp /\ now = FailAt
           /\ linkLog' = Append(linkLog, <<"SimulateLinkFailure", FailAt>>)
        \/ /\ ~PrimaryUp /\ now = RestoreAt
           /\ linkLog' = Append(linkLog, <<"RestoreLink", RestoreAt>>)

\* C26: in the multi-hop scenario the primary link goes Down only in
\* SimulateLinkFailure at failureTime and Up only in RestoreLink at
\* failureTime + 10 s; every RestoreLink event is preceded by a
\* SimulateLinkFailure event, and nothing is scheduled unless
\* 0 < failureTime < simTime.
C26_LinkEventsOrdered == []OrderedLog /\ [][StateChangeInHandler]_vars

C26_Witness ==
    /\ Len(linkLog) = 2 /\ PrimaryUp
    /\ linkLog[1] = <<"SimulateLinkFailure", FailAt>>
    /\ linkLog[2] = <<"RestoreLink", RestoreAt>>

\* C30: g_linkFailed is true exactly when the primary device is Down; it is
\* false at start and false again after RestoreLink.
C30_FlagAgreesWithLink ==
    /\ g_linkFailed = ~PrimaryUp
    /\ linkLog = <<>> => ~g_linkFailed
    /\ (linkLog # <<>> /\ linkLog[Len(linkLog)][1] = "RestoreLink") => ~g_linkFailed
    /\ (linkLog # <<>> /\ linkLog[Len(linkLog)][1] = "SimulateLinkFailure") => g_linkFailed

C30_Witness ==
    /\ g_linkFailed /\ ~PrimaryUp /\ now > FailAt
    /\ linkLog = <<<<"SimulateLinkFailure", FailAt>>>>

====
